---- MODULE Spec2Model ----
(***************************************************************************)
(* Model of the embedding/response batch pipeline (processor.py), of the   *)
(* response client's payload validation (response_generator.py) and of     *)
(* the embedding client (embedding_generator.py).                          *)
(*                                                                         *)
(* Four specifications share the module:                                   *)
(*   Spec        one run of main(): batches, retries, save_documents       *)
(*   SpecChunk   the generator chunked(), stepped chunk by chunk           *)
(*   SpecResp    get_responses() applied to one remote reply               *)
(*   SpecBuild   build_response_docs() applied to one batch                *)
(* The variables of the other specifications stay at their initial value.  *)
(***************************************************************************)
EXTENDS Integers, Sequences, FiniteSets, TLC

VARIABLES
    \* ---- main() ----
    texts,              \* the input texts (processor.py:131-167)
    batch_size,         \* args.batch_size
    offset,             \* chunked's range index i: the batch is texts[i:i+size]
    attempt,            \* the retry loop's `attempt` (0-based); MaxAttempts once
                        \* range(3) is exhausted
    pc,                 \* where main() stands
    embeddings,         \* local `embeddings`: the vectors of the last embedding reply
    all_embedding_docs, \* processor.py:169
    all_response_docs,  \* processor.py:170
    emb_coll,           \* the store's Embedings collection
    res_coll,           \* the store's Results collection
    exit_code,          \* <<>> while running, <<c>> once main returned c
    save_calls,         \* number of invocations of save_documents
    calls,              \* the remote calls issued for the current batch, with
                        \* their outcome, in the order issued
    last_sleep,         \* milliseconds of the latest time.sleep (0: none yet)
    inserts,            \* the insert_many calls of save_documents, in order
    client,             \* the MongoClient: "none", "open" or "closed"
    \* ---- chunked() ----
    ch_iterable, ch_size, ch_i, ch_yielded, ch_done,
    \* ---- get_responses() ----
    rg_payload, rg_result, rg_pc,
    \* ---- build_response_docs() ----
    bd_texts, bd_responses, bd_docs, bd_pc

main_vars  == <<texts, batch_size, offset, attempt, pc, embeddings,
                all_embedding_docs, all_response_docs, emb_coll, res_coll,
                exit_code, save_calls, calls, last_sleep, inserts, client>>
chunk_vars == <<ch_iterable, ch_size, ch_i, ch_yielded, ch_done>>
resp_vars  == <<rg_payload, rg_result, rg_pc>>
build_vars == <<bd_texts, bd_responses, bd_docs, bd_pc>>
vars       == <<main_vars, chunk_vars, resp_vars, build_vars>>

(***************************************************************************)
(* Bounds of the model                                                     *)
(***************************************************************************)
MaxTexts     == 3   \* number of input texts of a run
MaxBatchSize == 3   \* largest --batch-size tried
MaxVectors   == 3   \* most vectors one embedding reply carries
MaxChunkLen  == 7   \* longest list handed to chunked in SpecChunk
MaxChunkSize == 4   \* largest chunk size in SpecChunk
MaxOutput    == 2   \* longest `output` list of a reply in SpecResp
MaxContent   == 2   \* longest `content` list of a message in SpecResp
MaxBuildLen  == 3   \* largest batch handed to build_response_docs in SpecBuild

\* range(3) of the retry loop
MaxAttempts == 3

\* time.sleep(0.5 * (attempt + 1)) and time.sleep(0.05), in milliseconds
BackoffMs == 500
PauseMs   == 50

\* the values of --batch-size: argparse takes any integer
BatchSizes == (-1)..MaxBatchSize

Min(a, b) == IF a < b THEN a ELSE b

\* The input lines; a text is identified by its position in the input.
TextUniverse == <<"alpha", "beta", "gamma", "delta", "epsilon", "zeta", "eta", "theta">>

(***************************************************************************)
(* chunked: the slice iterable[i : i + size] (i is 0-based)                *)
(***************************************************************************)
\* the slice with its end off by one: iterable[i : i + size - 1]
SliceShort(iterable, i, size) ==
    SubSeq(iterable, i + 1, Min(i + size, Len(iterable)) - 1)

Slice(iterable, i, size) ==
    SubSeq(iterable, i + 1, Min(i + size, Len(iterable)))

\* "".join(batch): one string, not a list
RECURSIVE JoinTexts(_)
JoinTexts(batch) ==
    IF batch = <<>> THEN "" ELSE Head(batch) \o JoinTexts(Tail(batch))

(***************************************************************************)
(* ResponseGenerator.get_responses                                         *)
(*                                                                         *)
(* A remote reply is a record                                              *)
(*   transport  "ok" | "error"      requests.post returned / raised        *)
(*   status     HTTP status code                                           *)
(*   body       "object" | "json_other" | "not_json"                       *)
(*   has_output, output_is_list, output   the object's `output` field      *)
(*   id, model  top-level fields of the object                             *)
(*   has_usage, usage   the object's `usage` field, a mapping given as a   *)
(*              set of <<key, value>> pairs                                *)
(* An element of `output` is a record                                      *)
(*   shape "object" | "other", type, role, content_is_list, content        *)
(* and an element of `content` a record [type, text]; a text is a          *)
(* sequence of one-character strings so that strip() can be computed.      *)
(*                                                                         *)
(* The code raises ResponseAPIError with a message and no reason field;    *)
(* the results carry the reason names of the design:                       *)
(*   network_error    "Request failed: ..."                                *)
(*   http_error       "Response API error: ..."                            *)
(*   invalid_payload  "Invalid JSON response from API"                     *)
(*   invalid_shape    "Expected JSON object response" /                    *)
(*                    "Expected 'output' to be a list"                     *)
(*   no_content       "No valid message response found in output"          *)
(* ValueError and AttributeError are exceptions that are not               *)
(* ResponseAPIError.                                                       *)
(***************************************************************************)
Whitespace == {" "}

RECURSIVE LStrip(_)
LStrip(s) == IF s # <<>> /\ Head(s) \in Whitespace THEN LStrip(Tail(s)) ELSE s

RECURSIVE RStrip(_)
RStrip(s) ==
    IF s # <<>> /\ s[Len(s)] \in Whitespace THEN RStrip(SubSeq(s, 1, Len(s) - 1)) ELSE s

\* str.strip()
Strip(s) == RStrip(LStrip(s))

\* response_text: None, or a string
NoneText    == [set |-> FALSE, val |-> <<>>]
SomeText(s) == [set |-> TRUE, val |-> s]
Truthy(rt)  == rt.set /\ rt.val # <<>>

\* inner loop, lines 113-116: the first output_text item decides
RECURSIVE ScanContent(_, _, _)
ScanContent(content, k, response_text) ==
    IF k > Len(content) THEN response_text
    ELSE IF content[k].type = "output_text" THEN SomeText(Strip(content[k].text))
    ELSE ScanContent(content, k + 1, response_text)

\* outer loop, lines 110-118
RECURSIVE ScanOutput(_, _, _)
ScanOutput(output, k, response_text) ==
    IF k > Len(output) THEN [raised |-> FALSE, response_text |-> response_text]
    ELSE LET item == output[k] IN
         IF item.shape # "object"
         THEN [raised |-> TRUE, response_text |-> response_text]
         ELSE IF item.type = "message" /\ item.role = "assistant"
         THEN IF ~item.content_is_list
              THEN [raised |-> TRUE, response_text |-> response_text]
              ELSE LET rt == ScanContent(item.content, 1, response_text) IN
                   IF Truthy(rt) THEN [raised |-> FALSE, response_text |-> rt]
                   ELSE ScanOutput(output, k + 1, rt)
         ELSE ScanOutput(output, k + 1, response_text)

Raise(reason) == [ok |-> FALSE, error |-> reason, records |-> <<>>]

\* result.get("output") with no default: an absent field is not a list
OutputOrDefaultStrict(p) ==
    IF p.has_output THEN [is_list |-> p.output_is_list, items |-> p.output]
    ELSE [is_list |-> FALSE, items |-> <<>>]

\* result.get("output", []): an absent field reads as the empty list
OutputOrDefault(p) ==
    IF p.has_output THEN [is_list |-> p.output_is_list, items |-> p.output]
    ELSE [is_list |-> TRUE, items |-> <<>>]

\* result.get("usage", {})
UsageOrDefault(p) == IF p.has_usage THEN p.usage ELSE {}

get_responses(input, p) ==
    IF input = "" THEN Raise("ValueError")
    ELSE IF p.transport # "ok" THEN Raise("network_error")
    ELSE IF p.status >= 400 THEN Raise("http_error")
    ELSE IF p.body = "not_json" THEN Raise("invalid_payload")
    ELSE IF p.body # "object" THEN Raise("invalid_shape")
    ELSE LET output == OutputOrDefault(p) IN
         IF ~output.is_list THEN Raise("invalid_shape")
         ELSE LET scan == ScanOutput(output.items, 1, NoneText) IN
              IF scan.raised THEN Raise("AttributeError")
              ELSE IF ~Truthy(scan.response_text) THEN Raise("no_content")
              ELSE [ok |-> TRUE, error |-> "none",
                    records |-> << [text  |-> scan.response_text.val,
                                    id    |-> p.id,
                                    model |-> p.model,
                                    usage |-> UsageOrDefault(p)] >>]

(***************************************************************************)
(* EmbeddingGenerator.get_embeddings: the vectors of resp["data"], in the  *)
(* order of the reply                                                      *)
(***************************************************************************)
get_embeddings(resp) == [j \in 1..Len(resp.data) |-> resp.data[j].embedding]

(***************************************************************************)
(* Document builders.  zip() stops at the shorter of its two arguments.    *)
(* created_at (the clock) is left out of the documents.                    *)
(***************************************************************************)
build_embedding_docs(batch, embs) ==
    [i \in 1..Min(Len(batch), Len(embs)) |->
        [text      |-> batch[i],
         embedding |-> embs[i],
         source    |-> "local_script",
         index     |-> i - 1]]

build_response_docs(batch, responses) ==
    [i \in 1..Min(Len(batch), Len(responses)) |->
        [text        |-> batch[i],
         response    |-> responses[i].text,
         response_id |-> responses[i].id,
         model       |-> responses[i].model,
         usage       |-> responses[i].usage,
         source      |-> "local_script",
         index       |-> i - 1]]

(***************************************************************************)
(* The remote endpoints as main() meets them.  Every reply is tagged with  *)
(* the call it answers (batch offset, attempt), so that the documents of   *)
(* different attempts are different documents.                             *)
(***************************************************************************)
CallTag == <<offset, attempt>>

\* a reply of the embeddings endpoint carrying n vectors
EmbeddingReply(n) ==
    [data |-> [j \in 1..n |-> [embedding |-> <<offset, attempt, j>>, index |-> j - 1]]]

GoodContent == << [type |-> "output_text", text |-> <<"o", "k">>] >>

SomeUsage == { <<"total_tokens", 7>> }

GoodReply(tag) ==
    [transport |-> "ok", status |-> 200, body |-> "object",
     has_usage |-> TRUE, usage |-> SomeUsage,
     has_output |-> TRUE, output_is_list |-> TRUE,
     output |-> << [shape |-> "object", type |-> "message", role |-> "assistant",
                    content_is_list |-> TRUE, content |-> GoodContent] >>,
     id |-> tag, model |-> "response-model"]

\* the replies of the responses endpoint tried in a run
ResponseReplies(tag) ==
    { GoodReply(tag),
      [GoodReply(tag) EXCEPT !.transport = "error"],
      [GoodReply(tag) EXCEPT !.status = 500],
      [GoodReply(tag) EXCEPT !.output = <<>>] }

(***************************************************************************)
(* main(): the batch loop, processor.py:172-218                            *)
(***************************************************************************)
Batch == Slice(texts, offset, batch_size)

\* the retry loop without its `return 3`: main goes on to save_documents
RetriesExhaustedFallsThrough ==
    /\ pc' = "save"
    /\ UNCHANGED exit_code

\* the for-else of the retry loop: "Failed after retries", return 3
RetriesExhausted ==
    /\ pc' = "returned"
    /\ exit_code' = <<3>>

\* a backoff that does not grow: time.sleep(0.5)
BackoffSleepConstant(a) == BackoffMs

\* time.sleep(0.5 * (attempt + 1)), line 215
BackoffSleep(a) == BackoffMs * (a + 1)

\* the error is swallowed: main goes on as if the batch were done
FailAttemptGoesOn ==
    /\ attempt' = 0
    /\ last_sleep' = BackoffSleep(attempt)
    /\ pc' = "save"
    /\ UNCHANGED <<texts, batch_size, offset, emb_coll, res_coll, save_calls,
                   inserts, client, exit_code>>

\* the retry re-issues only the call that failed
FailAttemptRetriesSameCall ==
    /\ attempt' = attempt + 1
    /\ last_sleep' = BackoffSleep(attempt)
    /\ IF attempt + 1 < MaxAttempts
       THEN pc' = pc /\ UNCHANGED exit_code
       ELSE RetriesExhausted
    /\ UNCHANGED <<texts, batch_size, offset, emb_coll, res_coll, save_calls,
                   inserts, client>>

\* except Exception (lines 212-215): the attempt failed
FailAttempt ==
    /\ attempt' = attempt + 1
    /\ last_sleep' = BackoffSleep(attempt)
    /\ IF attempt + 1 < MaxAttempts
       THEN pc' = "embed" /\ UNCHANGED exit_code
       ELSE RetriesExhausted
    /\ UNCHANGED <<texts, batch_size, offset, emb_coll, res_coll, save_calls,
                   inserts, client>>

\* the log of the batch's calls after one more call; the first call of a
\* batch starts a new log
Logged(call, outcome) ==
    (IF call = "embed" /\ attempt = 0 THEN <<>> ELSE calls)
        \o << [call |-> call, outcome |-> outcome] >>

\* line 172: the first batch is taken from chunked
FirstBatch ==
    /\ pc = "loop"
    /\ batch_size > 0
    /\ pc' = "embed"
    /\ UNCHANGED <<texts, batch_size, offset, attempt, embeddings,
                   all_embedding_docs, all_response_docs, emb_coll, res_coll,
                   exit_code, save_calls, calls, last_sleep, inserts, client>>

\* line 172 with a negative size: range(0, len, size) is empty, the loop
\* body never runs
NoBatch ==
    /\ pc = "loop"
    /\ batch_size < 0
    /\ pc' = "save"
    /\ UNCHANGED <<texts, batch_size, offset, attempt, embeddings,
                   all_embedding_docs, all_response_docs, emb_coll, res_coll,
                   exit_code, save_calls, calls, last_sleep, inserts, client>>

\* line 172 with size 0: range() raises ValueError, which nothing catches;
\* the interpreter exits with status 1
ChunkedRaises ==
    /\ pc = "loop"
    /\ batch_size = 0
    /\ pc' = "returned"
    /\ exit_code' = <<1>>
    /\ UNCHANGED <<texts, batch_size, offset, attempt, embeddings,
                   all_embedding_docs, all_response_docs, emb_coll, res_coll,
                   save_calls, calls, last_sleep, inserts, client>>

\* lines 179-181: the embedding call returns n vectors
GetEmbeddingsReturns ==
    /\ pc = "embed"
    /\ \E n \in 0..MaxVectors :
         /\ embeddings' = get_embeddings(EmbeddingReply(n))
         /\ all_embedding_docs' =
                all_embedding_docs \o build_embedding_docs(Batch, embeddings')
    /\ pc' = "respond"
    /\ calls' = Logged("embed", "ok")
    /\ UNCHANGED <<texts, batch_size, offset, attempt, all_response_docs,
                   emb_coll, res_coll, exit_code, save_calls, last_sleep,
                   inserts, client>>

\* line 179 raises (transport, status, malformed payload)
GetEmbeddingsRaises ==
    /\ pc = "embed"
    /\ calls' = Logged("embed", "raised")
    /\ FailAttempt
    /\ UNCHANGED <<embeddings, all_embedding_docs, all_response_docs>>

\* lines 186-211: the response call returns; the batch is done
GetResponsesReturns ==
    /\ pc = "respond"
    /\ \E reply \in ResponseReplies(CallTag) :
         LET r == get_responses(JoinTexts(Batch), reply) IN
         /\ r.ok
         /\ all_response_docs' =
                all_response_docs \o build_response_docs(Batch, r.records)
    /\ offset' = offset + batch_size
    /\ attempt' = 0
    /\ pc' = IF offset + batch_size < Len(texts) THEN "embed" ELSE "save"
    /\ calls' = Logged("respond", "ok")
    /\ last_sleep' = PauseMs
    /\ UNCHANGED <<texts, batch_size, embeddings, all_embedding_docs,
                   emb_coll, res_coll, exit_code, save_calls, inserts, client>>

\* lines 198-207, 212-215: the response call raises
GetResponsesRaises ==
    /\ pc = "respond"
    /\ \E reply \in ResponseReplies(CallTag) :
         ~get_responses(JoinTexts(Batch), reply).ok
    /\ calls' = Logged("respond", "raised")
    /\ FailAttempt
    /\ UNCHANGED <<embeddings, all_embedding_docs, all_response_docs>>

(***************************************************************************)
(* save_documents, processor.py:31-56, and its call, lines 220-226.        *)
(* The store generates the identifiers; insert_many returns them in call   *)
(* order.  A failing insert_many is taken to have written nothing.         *)
(***************************************************************************)
StoredEmbedding(doc, id) ==
    [_id |-> id, text |-> doc.text, embedding |-> doc.embedding,
     source |-> doc.source, index |-> doc.index]

\* resp_doc["_id"] = ...
WithId(doc, id) ==
    [_id |-> id, text |-> doc.text, response |-> doc.response,
     response_id |-> doc.response_id, model |-> doc.model,
     usage |-> doc.usage, source |-> doc.source, index |-> doc.index]

\* result.inserted_ids of an insert of m documents into coll
inserted_ids(coll, m) == [k \in 1..m |-> Len(coll) + k]

Return(code) ==
    /\ pc' = "returned"
    /\ exit_code' = <<code>>

\* client.close() at the end of the try body only: skipped when it raised
CloseWithoutFinally(raised) ==
    client' = IF raised THEN "open" ELSE "closed"

\* finally: client.close(), lines 55-56
Finally(raised) ==
    client' = "closed"

Inserted(coll, ok) == Append(inserts, [coll |-> coll, ok |-> ok])

\* line 33: MongoClient(mongo_uri) raises (a malformed URI); nothing was
\* opened, main returns 4
ConnectFails ==
    /\ pc = "save"
    /\ save_calls' = save_calls + 1
    /\ Return(4)
    /\ UNCHANGED <<texts, batch_size, offset, attempt, embeddings,
                   all_embedding_docs, all_response_docs, emb_coll, res_coll,
                   calls, last_sleep, inserts, client>>

\* lines 50-51: nothing to insert
SaveNothing ==
    /\ pc = "save"
    /\ all_embedding_docs = <<>>
    /\ save_calls' = save_calls + 1
    /\ Finally(FALSE)
    /\ Return(0)
    /\ UNCHANGED <<texts, batch_size, offset, attempt, embeddings,
                   all_embedding_docs, all_response_docs, emb_coll, res_coll,
                   calls, last_sleep, inserts>>

\* lines 41-46: the embedding insert succeeds, the identifiers are copied
InsertEmbeddings ==
    /\ pc = "save"
    /\ all_embedding_docs # <<>>
    /\ save_calls' = save_calls + 1
    /\ LET m   == Len(all_embedding_docs)
           ids == inserted_ids(emb_coll, m)
       IN /\ emb_coll' = emb_coll \o
                    [k \in 1..m |-> StoredEmbedding(all_embedding_docs[k], ids[k])]
          /\ IF Len(all_response_docs) > m
             THEN \* IndexError at line 46
                  /\ Finally(TRUE)
                  /\ Return(4)
                  /\ UNCHANGED all_response_docs
             ELSE /\ all_response_docs' =
                        [k \in 1..Len(all_response_docs) |->
                            WithId(all_response_docs[k], ids[k])]
                  /\ client' = "open"
                  /\ pc' = "insert_responses"
                  /\ UNCHANGED exit_code
    /\ inserts' = Inserted("Embedings", TRUE)
    /\ UNCHANGED <<texts, batch_size, offset, attempt, embeddings,
                   all_embedding_docs, res_coll, calls, last_sleep>>

\* line 41 raises PyMongoError
InsertEmbeddingsFails ==
    /\ pc = "save"
    /\ all_embedding_docs # <<>>
    /\ save_calls' = save_calls + 1
    /\ inserts' = Inserted("Embedings", FALSE)
    /\ Finally(TRUE)
    /\ Return(4)
    /\ UNCHANGED <<texts, batch_size, offset, attempt, embeddings,
                   all_embedding_docs, all_response_docs, emb_coll, res_coll,
                   calls, last_sleep>>

\* line 48: the response insert succeeds; insert_many rejects an empty list
InsertResponses ==
    /\ pc = "insert_responses"
    /\ IF all_response_docs = <<>>
       THEN /\ Return(4) /\ UNCHANGED res_coll
            /\ inserts' = Inserted("Results", FALSE)
            /\ Finally(TRUE)
       ELSE /\ Return(0) /\ res_coll' = res_coll \o all_response_docs
            /\ inserts' = Inserted("Results", TRUE)
            /\ Finally(FALSE)
    /\ UNCHANGED <<texts, batch_size, offset, attempt, embeddings,
                   all_embedding_docs, all_response_docs, emb_coll, save_calls,
                   calls, last_sleep>>

\* the failed response insert is tried again
InsertResponsesFailsRetried ==
    /\ pc = "insert_responses"
    /\ all_response_docs # <<>>
    /\ Len(inserts) < 3
    /\ inserts' = Inserted("Results", FALSE)
    /\ UNCHANGED <<texts, batch_size, offset, attempt, pc, embeddings,
                   all_embedding_docs, all_response_docs, emb_coll, res_coll,
                   exit_code, save_calls, calls, last_sleep, client>>

\* line 48 raises PyMongoError
InsertResponsesFails ==
    /\ pc = "insert_responses"
    /\ all_response_docs # <<>>
    /\ inserts' = Inserted("Results", FALSE)
    /\ Finally(TRUE)
    /\ Return(4)
    /\ UNCHANGED <<texts, batch_size, offset, attempt, embeddings,
                   all_embedding_docs, all_response_docs, emb_coll, res_coll,
                   save_calls, calls, last_sleep>>

ChunkIdle == /\ ch_iterable = <<>> /\ ch_size = 1 /\ ch_i = 0
             /\ ch_yielded = <<>> /\ ch_done = FALSE
RespIdle  == /\ rg_payload = <<>> /\ rg_result = <<>> /\ rg_pc = "idle"
BuildIdle == /\ bd_texts = <<>> /\ bd_responses = <<>> /\ bd_docs = <<>>
             /\ bd_pc = "idle"
MainIdle  == /\ texts = <<>> /\ batch_size = 1 /\ offset = 0 /\ attempt = 0
             /\ pc = "idle" /\ embeddings = <<>>
             /\ all_embedding_docs = <<>> /\ all_response_docs = <<>>
             /\ emb_coll = <<>> /\ res_coll = <<>>
             /\ exit_code = <<>> /\ save_calls = 0
             /\ calls = <<>> /\ last_sleep = 0 /\ inserts = <<>>
             /\ client = "none"

\* main() past the input stage (line 169): the texts are not empty; the batch
\* size is whatever integer --batch-size gave
Init ==
    /\ \E n \in 1..MaxTexts : texts = SubSeq(TextUniverse, 1, n)
    /\ batch_size \in BatchSizes
    /\ offset = 0 /\ attempt = 0 /\ pc = "loop" /\ embeddings = <<>>
    /\ all_embedding_docs = <<>> /\ all_response_docs = <<>>
    /\ emb_coll = <<>> /\ res_coll = <<>>
    /\ exit_code = <<>> /\ save_calls = 0
    /\ calls = <<>> /\ last_sleep = 0 /\ inserts = <<>> /\ client = "none"
    /\ ChunkIdle /\ RespIdle /\ BuildIdle

Next ==
    \/ FirstBatch /\ UNCHANGED <<chunk_vars, resp_vars, build_vars>>
    \/ NoBatch /\ UNCHANGED <<chunk_vars, resp_vars, build_vars>>
    \/ ChunkedRaises /\ UNCHANGED <<chunk_vars, resp_vars, build_vars>>
    \/ GetEmbeddingsReturns /\ UNCHANGED <<chunk_vars, resp_vars, build_vars>>
    \/ GetEmbeddingsRaises /\ UNCHANGED <<chunk_vars, resp_vars, build_vars>>
    \/ GetResponsesReturns /\ UNCHANGED <<chunk_vars, resp_vars, build_vars>>
    \/ GetResponsesRaises /\ UNCHANGED <<chunk_vars, resp_vars, build_vars>>
    \/ ConnectFails /\ UNCHANGED <<chunk_vars, resp_vars, build_vars>>
    \/ SaveNothing /\ UNCHANGED <<chunk_vars, resp_vars, build_vars>>
    \/ InsertEmbeddings /\ UNCHANGED <<chunk_vars, resp_vars, build_vars>>
    \/ InsertEmbeddingsFails /\ UNCHANGED <<chunk_vars, resp_vars, build_vars>>
    \/ InsertResponses /\ UNCHANGED <<chunk_vars, resp_vars, build_vars>>
    \/ InsertResponsesFails /\ UNCHANGED <<chunk_vars, resp_vars, build_vars>>

Spec == Init /\ [][Next]_vars

(***************************************************************************)
(* SpecChunk: chunked(iterable, size), processor.py:100-103, one step per  *)
(* iteration of its range loop.  The elements are 1..n, all different.     *)
(***************************************************************************)
InitChunk ==
    /\ \E n \in 0..MaxChunkLen : ch_iterable = [k \in 1..n |-> k]
    /\ ch_size \in 1..MaxChunkSize
    /\ ch_i = 0 /\ ch_yielded = <<>> /\ ch_done = FALSE
    /\ MainIdle /\ RespIdle /\ BuildIdle

\* yield iterable[i : i + size]
ChunkYield ==
    /\ ~ch_done
    /\ ch_i < Len(ch_iterable)
    /\ ch_yielded' = Append(ch_yielded, Slice(ch_iterable, ch_i, ch_size))
    /\ ch_i' = ch_i + ch_size
    /\ UNCHANGED <<ch_iterable, ch_size, ch_done>>

\* the range is exhausted
ChunkStop ==
    /\ ~ch_done
    /\ ch_i >= Len(ch_iterable)
    /\ ch_done' = TRUE
    /\ UNCHANGED <<ch_iterable, ch_size, ch_i, ch_yielded>>

NextChunk ==
    \/ ChunkYield /\ UNCHANGED <<main_vars, resp_vars, build_vars>>
    \/ ChunkStop /\ UNCHANGED <<main_vars, resp_vars, build_vars>>

SpecChunk == InitChunk /\ [][NextChunk]_vars

(***************************************************************************)
(* SpecResp: get_responses on one reply of the responses endpoint.         *)
(***************************************************************************)
SeqsUpTo(S, n) == UNION {[1..k -> S] : k \in 0..n}

\* texts of content items: empty, one that strip() shortens, and another
TextVals == { <<>>, <<" ", "h", " ">>, <<"x">> }

ContentItems ==
    {[type |-> "output_text", text |-> t] : t \in TextVals}
        \cup {[type |-> "refusal", text |-> <<"n", "o">>]}

Message(role, is_list, content) ==
    [shape |-> "object", type |-> "message", role |-> role,
     content_is_list |-> is_list, content |-> content]

OutputItems ==
    {Message("assistant", TRUE, c) : c \in SeqsUpTo(ContentItems, MaxContent)}
        \cup { Message("user", TRUE, GoodContent),
               [Message("assistant", TRUE, GoodContent) EXCEPT !.type = "reasoning"],
               Message("assistant", FALSE, <<>>),
               [Message("assistant", TRUE, <<>>) EXCEPT !.shape = "other"] }

ObjectReply(has_output, is_list, output) ==
    [transport |-> "ok", status |-> 200, body |-> "object",
     has_usage |-> TRUE, usage |-> SomeUsage,
     has_output |-> has_output, output_is_list |-> is_list, output |-> output,
     id |-> "resp_1", model |-> "response-model"]

\* the `usage` field is absent in the replies with at most one output element
Replies ==
    {ObjectReply(TRUE, TRUE, o) : o \in SeqsUpTo(OutputItems, MaxOutput)}
        \cup { [ObjectReply(TRUE, TRUE, o) EXCEPT !.has_usage = FALSE, !.usage = {}] :
                   o \in SeqsUpTo(OutputItems, 1) }
        \cup { ObjectReply(FALSE, FALSE, <<>>),
               ObjectReply(TRUE, FALSE, <<>>),
               [ObjectReply(TRUE, TRUE, <<>>) EXCEPT !.transport = "error"],
               [ObjectReply(TRUE, TRUE, <<>>) EXCEPT !.status = 500],
               [ObjectReply(TRUE, TRUE, <<>>) EXCEPT !.body = "not_json"],
               [ObjectReply(TRUE, TRUE, <<>>) EXCEPT !.body = "json_other"] }

InitResp ==
    /\ rg_payload \in Replies
    /\ rg_result = <<>>
    /\ rg_pc = "call"
    /\ MainIdle /\ ChunkIdle /\ BuildIdle

CallGetResponses ==
    /\ rg_pc = "call"
    /\ rg_result' = get_responses(JoinTexts(<<"alpha", "beta">>), rg_payload)
    /\ rg_pc' = "done"
    /\ UNCHANGED rg_payload

NextResp == CallGetResponses /\ UNCHANGED <<main_vars, chunk_vars, build_vars>>

SpecResp == InitResp /\ [][NextResp]_vars

(***************************************************************************)
(* SpecBuild: build_response_docs on a batch and on the list that          *)
(* get_responses returned for it.                                          *)
(***************************************************************************)
BuildTexts == {"alpha", "beta"}

BuildReplies ==
    { [GoodReply(id) EXCEPT !.model = m,
                            !.output[1].content[1].text = t] :
        id \in {"resp_1", "resp_2"},
        m  \in {"model-a", "model-b"},
        t  \in { <<"o", "k">>, <<" ", "h", " ">> } }

InitBuild ==
    /\ bd_texts \in SeqsUpTo(BuildTexts, MaxBuildLen) \ {<<>>}
    /\ \E reply \in BuildReplies :
         bd_responses = get_responses(JoinTexts(bd_texts), reply).records
    /\ bd_docs = <<>>
    /\ bd_pc = "call"
    /\ MainIdle /\ ChunkIdle /\ RespIdle

CallBuildResponseDocs ==
    /\ bd_pc = "call"
    /\ bd_docs' = build_response_docs(bd_texts, bd_responses)
    /\ bd_pc' = "done"
    /\ UNCHANGED <<bd_texts, bd_responses>>

NextBuild == CallBuildResponseDocs /\ UNCHANGED <<main_vars, chunk_vars, resp_vars>>

SpecBuild == InitBuild /\ [][NextBuild]_vars

(***************************************************************************)
(* Properties                                                              *)
(***************************************************************************)
\* the call (batch offset, attempt) that produced a document
EmbeddingDocCall(d) == <<d.embedding[1], d.embedding[2]>>
ResponseDocCall(d)  == d.response_id

\* C1: once every batch has succeeded, both run-level sequences hold the
\* documents of the successful attempt of each batch only, in batch order:
\* every embedding document comes from a call whose attempt also produced
\* the batch's response documents, and no batch has documents of two attempts.
C1_OnlySuccessfulAttemptDocs ==
    pc = "save" =>
        /\ \A k \in DOMAIN all_embedding_docs :
             \E j \in DOMAIN all_response_docs :
                 ResponseDocCall(all_response_docs[j])
                     = EmbeddingDocCall(all_embedding_docs[k])
        /\ \A k, j \in DOMAIN all_embedding_docs :
             /\ (k < j => all_embedding_docs[k].embedding[1]
                              <= all_embedding_docs[j].embedding[1])
             /\ (all_embedding_docs[k].embedding[1] = all_embedding_docs[j].embedding[1]
                    => all_embedding_docs[k].embedding[2]
                           = all_embedding_docs[j].embedding[2])
        /\ \A k, j \in DOMAIN all_response_docs :
             /\ (k < j => ResponseDocCall(all_response_docs[k])[1]
                              <= ResponseDocCall(all_response_docs[j])[1])
             /\ (ResponseDocCall(all_response_docs[k])[1]
                     = ResponseDocCall(all_response_docs[j])[1]
                    => ResponseDocCall(all_response_docs[k])
                           = ResponseDocCall(all_response_docs[j]))

\* C2: once a batch has failed all 3 attempts, main has returned 3,
\* save_documents has not been invoked and both collections are empty.
C2_ExhaustionAbortsWithoutPersistence ==
    attempt = MaxAttempts =>
        /\ pc = "returned"
        /\ exit_code = <<3>>
        /\ save_calls = 0
        /\ emb_coll = <<>>
        /\ res_coll = <<>>

\* a batch is exhausted after an earlier batch succeeded and left documents
C2_Witness ==
    /\ attempt = MaxAttempts
    /\ exit_code = <<3>>
    /\ offset > 0
    /\ all_embedding_docs # <<>>
    /\ all_response_docs # <<>>

\* C3: when all batches have succeeded, the Store Writer is handed two
\* sequences of exactly N documents, the i-th carrying the i-th input text.
C3_EveryTextCoveredOnce ==
    (pc = "save" /\ batch_size > 0) =>
        /\ Len(all_embedding_docs) = Len(texts)
        /\ Len(all_response_docs) = Len(texts)
        /\ \A k \in 1..Len(texts) :
             /\ all_embedding_docs[k].text = texts[k]
             /\ all_response_docs[k].text = texts[k]

\* C4: build_response_docs yields K documents for a batch of K texts, with
\* indices 0..K-1, in batch order, all carrying the text, id and model of the
\* one response record.
C4_OneResponseDocPerText ==
    bd_pc = "done" =>
        /\ Len(bd_docs) = Len(bd_texts)
        /\ \A k \in 1..Len(bd_texts) :
             /\ bd_docs[k].index = k - 1
             /\ bd_docs[k].text = bd_texts[k]
             /\ bd_docs[k].response = bd_responses[1].text
             /\ bd_docs[k].response_id = bd_responses[1].id
             /\ bd_docs[k].model = bd_responses[1].model

\* C5: an embedding reply whose number of vectors differs from the number of
\* texts of the batch fails the attempt: main never goes on to the response
\* call of that attempt (and so never keeps documents built from the reply).
C5_MismatchIsHardError ==
    pc = "respond" => Len(embeddings) = Len(Batch)

\* C6: when save_documents has inserted M embedding documents and returned,
\* exactly M response documents are stored and the one at position i carries
\* the identifier of the embedding document at position i.
C6_OneToOneIdentifiers ==
    (exit_code = <<0>> /\ emb_coll # <<>>) =>
        /\ Len(res_coll) = Len(emb_coll)
        /\ \A k \in 1..Len(emb_coll) : res_coll[k]._id = emb_coll[k]._id

\* C7: persistence is all-or-nothing: a run that exits 0 has invoked
\* save_documents exactly once, and a run that exits 4 has left no document
\* in either collection.
C7_AllOrNothingPersistence ==
    /\ (exit_code = <<0>> => save_calls = 1)
    /\ (exit_code = <<4>> => emb_coll = <<>> /\ res_coll = <<>>)

IsObjectReply(p) == p.transport = "ok" /\ p.status < 400 /\ p.body = "object"

\* C8 (as stated): for a 2xx reply whose body is an object, get_responses
\* fails with invalid_shape both when `output` is absent and when it is
\* present but not a list.
C8_AbsentOrNonListIsInvalidShape ==
    (rg_pc = "done" /\ IsObjectReply(rg_payload)
        /\ (~rg_payload.has_output \/ ~rg_payload.output_is_list))
    => (~rg_result.ok /\ rg_result.error = "invalid_shape")

\* C8 (amended): for a 2xx reply whose body is an object, get_responses fails
\* with invalid_shape when `output` is present but not a list, and with
\* no_content when `output` is absent (it reads as the empty list).
C8_NonListIsInvalidShapeAbsentIsNoContent ==
    (rg_pc = "done" /\ IsObjectReply(rg_payload)) =>
        /\ (rg_payload.has_output /\ ~rg_payload.output_is_list
                => ~rg_result.ok /\ rg_result.error = "invalid_shape")
        /\ (~rg_payload.has_output
                => ~rg_result.ok /\ rg_result.error = "no_content")

C8_Witness ==
    /\ rg_pc = "done"
    /\ IsObjectReply(rg_payload)
    /\ ~rg_payload.has_output
    /\ rg_result.error = "no_content"

\* an assistant message with an output_text item whose text is not empty
\* once trimmed
Qualifies(item) ==
    /\ item.type = "message"
    /\ item.role = "assistant"
    /\ \E k \in DOMAIN item.content :
         /\ item.content[k].type = "output_text"
         /\ Strip(item.content[k].text) # <<>>

WellFormed(output) ==
    \A k \in DOMAIN output : output[k].shape = "object" /\ output[k].content_is_list

\* C9: for a 2xx object reply whose `output` is a list (of well-formed
\* elements), get_responses fails with no_content exactly when no element
\* is an assistant message with a non-empty output_text item, and succeeds
\* whenever there is such an element.
C9_NoContentIffNoQualifyingMessage ==
    (rg_pc = "done" /\ IsObjectReply(rg_payload)
        /\ rg_payload.has_output /\ rg_payload.output_is_list
        /\ WellFormed(rg_payload.output))
    => LET some == \E k \in DOMAIN rg_payload.output :
                       Qualifies(rg_payload.output[k])
       IN /\ (rg_result.error = "no_content") <=> ~some
          /\ some => rg_result.ok

RECURSIVE Concat(_)
Concat(chunks) == IF chunks = <<>> THEN <<>> ELSE Head(chunks) \o Concat(Tail(chunks))

\* C10: for a non-empty list of N elements and a positive size B, chunked
\* yields ceil(N/B) chunks, all of size B except possibly the last, which has
\* between 1 and B elements, and their concatenation is the list.
C10_ChunkedPartitions ==
    (ch_done /\ ch_iterable # <<>>) =>
        /\ Len(ch_yielded) = (Len(ch_iterable) + ch_size - 1) \div ch_size
        /\ \A k \in 1..(Len(ch_yielded) - 1) : Len(ch_yielded[k]) = ch_size
        /\ Len(ch_yielded[Len(ch_yielded)]) \in 1..ch_size
        /\ Concat(ch_yielded) = ch_iterable

\* several chunks, the last one short
C10_Witness ==
    /\ ch_done
    /\ Len(ch_yielded) >= 3
    /\ Len(ch_yielded[Len(ch_yielded)]) < ch_size

(***************************************************************************)
(* Properties of the run: exit codes, retries, call order, persistence     *)
(***************************************************************************)
RaisedCount(log) == Cardinality({k \in DOMAIN log : log[k].outcome = "raised"})
EmbedCount(log)  == Cardinality({k \in DOMAIN log : log[k].call = "embed"})

\* the step issued a remote call with this outcome
CallStep(call, outcome) ==
    /\ calls' # calls
    /\ calls'[Len(calls')] = [call |-> call, outcome |-> outcome]

RaisedStep == CallStep("embed", "raised") \/ CallStep("respond", "raised")

EveryBatchSucceeded == batch_size > 0 /\ offset >= Len(texts)
BatchExhausted      == RaisedCount(calls) = MaxAttempts
BothInserted        == inserts = << [coll |-> "Embedings", ok |-> TRUE],
                                    [coll |-> "Results", ok |-> TRUE] >>
SavedNothing        == save_calls = 1 /\ inserts = <<>> /\ client = "closed"
SaveRaised          == save_calls = 1 /\ ~BothInserted /\ ~SavedNothing

\* C11: a run on non-empty input (with a positive batch size) ends with exit
\* code 3 exactly when a batch failed all 3 attempts, 4 exactly when all
\* batches succeeded and save_documents raised, 0 exactly when all batches
\* succeeded and both inserts completed, and with no other outcome.
C11_ExitCodeTaxonomy ==
    (pc = "returned" /\ batch_size > 0) =>
        /\ exit_code \in {<<0>>, <<3>>, <<4>>}
        /\ (exit_code = <<3>>) <=> BatchExhausted
        /\ (exit_code = <<4>>) <=> (EveryBatchSucceeded /\ SaveRaised)
        /\ (exit_code = <<0>>) <=> (EveryBatchSucceeded /\ BothInserted)

\* C12: no batch sees more than 3 attempts, and a step in which a remote
\* call raised stays on the same batch and writes nothing: it leads to the
\* next attempt of the batch or, at the 3rd failure, to exit code 3.
C12_RaisedAttemptNeverProceeds ==
    [][ /\ EmbedCount(calls') <= MaxAttempts
        /\ RaisedStep =>
             /\ offset' = offset
             /\ save_calls' = 0
             /\ UNCHANGED <<all_response_docs, emb_coll, res_coll>>
             /\ \/ /\ pc' = "embed"
                   /\ exit_code' = <<>>
                   /\ RaisedCount(calls') < MaxAttempts
                \/ /\ pc' = "returned"
                   /\ exit_code' = <<3>>
                   /\ RaisedCount(calls') = MaxAttempts ]_vars

\* a second batch at its 3rd attempt after an embedding and a response failure
C12_Witness ==
    /\ pc = "embed"
    /\ attempt = 2
    /\ offset > 0
    /\ calls = << [call |-> "embed", outcome |-> "raised"],
                  [call |-> "embed", outcome |-> "ok"],
                  [call |-> "respond", outcome |-> "raised"] >>

\* C13: in the calls of a batch every attempt starts with the embedding
\* call, a response call directly follows a successful embedding call of the
\* same attempt, a retry starts again with the embedding call, and the
\* number of embedding calls is the number of attempts made.
C13_EmbeddingBeforeResponseInEveryAttempt ==
    /\ calls # <<>> => calls[1].call = "embed"
    /\ \A k \in 2..Len(calls) :
         /\ calls[k].call = "respond"
                => calls[k - 1] = [call |-> "embed", outcome |-> "ok"]
         /\ calls[k].call = "embed" => calls[k - 1].outcome = "raised"
         /\ calls[k - 1] = [call |-> "embed", outcome |-> "ok"]
                => calls[k].call = "respond"
    /\ pc = "respond" => EmbedCount(calls) = attempt + 1
    /\ (pc = "embed" /\ attempt > 0) => EmbedCount(calls) = attempt

\* three attempts whose embedding calls all succeeded: three embedding calls
C13_Witness ==
    /\ pc = "respond"
    /\ attempt = 2
    /\ calls = << [call |-> "embed", outcome |-> "ok"],
                  [call |-> "respond", outcome |-> "raised"],
                  [call |-> "embed", outcome |-> "ok"],
                  [call |-> "respond", outcome |-> "raised"],
                  [call |-> "embed", outcome |-> "ok"] >>

\* C14: save_documents is invoked at most once and only when no batch is
\* left and none was exhausted; each collection's insert is attempted at
\* most once, the embedding insert first and the response insert only after
\* the embedding insert succeeded.
C14_PersistenceOnceNeverRetried ==
    /\ save_calls <= 1
    /\ save_calls = 1 =>
         /\ batch_size < 0 \/ offset >= Len(texts)
         /\ batch_size # 0
         /\ ~BatchExhausted
         /\ exit_code # <<3>>
    /\ inserts # <<>> => save_calls = 1
    /\ inserts \in { <<>>,
                     << [coll |-> "Embedings", ok |-> TRUE] >>,
                     << [coll |-> "Embedings", ok |-> FALSE] >>,
                     << [coll |-> "Embedings", ok |-> TRUE],
                        [coll |-> "Results", ok |-> TRUE] >>,
                     << [coll |-> "Embedings", ok |-> TRUE],
                        [coll |-> "Results", ok |-> FALSE] >> }

\* the response insert failed after the embedding insert: the run is over
C14_Witness ==
    /\ exit_code = <<4>>
    /\ inserts = << [coll |-> "Embedings", ok |-> TRUE],
                    [coll |-> "Results", ok |-> FALSE] >>

\* C17: a run that exits 0 has processed a batch and has inserted every
\* accumulated embedding document and every accumulated response document.
C17_ExitZeroMeansEverythingWritten ==
    exit_code = <<0>> =>
        /\ offset > 0
        /\ Len(emb_coll) = Len(all_embedding_docs)
        /\ \A k \in DOMAIN all_embedding_docs :
             emb_coll[k].text = all_embedding_docs[k].text
        /\ res_coll = all_response_docs

\* C18: a stored response document and the stored embedding document with
\* the same identifier have the same text and come from the same attempt
\* of the same batch.
C18_SharedIdentifierLinksSameAttempt ==
    \A k \in DOMAIN res_coll : \A j \in DOMAIN emb_coll :
        res_coll[k]._id = emb_coll[j]._id =>
            /\ res_coll[k].text = emb_coll[j].text
            /\ ResponseDocCall(res_coll[k]) = EmbeddingDocCall(emb_coll[j])

\* C19: the step of the k-th failed attempt of a batch sleeps 500*k ms, the
\* step that completes a batch sleeps 50 ms, and no other step sleeps.
C19_LinearBackoffAndPause ==
    [][ /\ RaisedStep => last_sleep' = 500 * RaisedCount(calls')
        /\ CallStep("respond", "ok") => last_sleep' = 50
        /\ CallStep("embed", "ok") => last_sleep' = last_sleep
        /\ calls' = calls => last_sleep' = last_sleep ]_vars

\* the sleep after the 3rd failure
C19_Witness ==
    /\ last_sleep = 1500
    /\ exit_code = <<3>>
    /\ RaisedCount(calls) = 3

\* C20: the client that save_documents opened is closed when control is
\* back in main, on every path; it is open only between the two inserts.
C20_ClientClosedOnEveryPath ==
    /\ pc = "returned" => client # "open"
    /\ (pc = "returned" /\ (inserts # <<>> \/ exit_code = <<0>>)) => client = "closed"
    /\ client = "open" => pc = "insert_responses"

\* the identifier copy failed (more response than embedding documents)
C20_Witness ==
    /\ exit_code = <<4>>
    /\ inserts = << [coll |-> "Embedings", ok |-> TRUE] >>
    /\ client = "closed"

(***************************************************************************)
(* Properties of get_responses, continued                                  *)
(***************************************************************************)
ResponseAPIErrorReasons ==
    {"network_error", "http_error", "invalid_payload", "invalid_shape", "no_content"}

\* C15: for a 2xx reply whose body is an object, get_responses returns a
\* record or raises ResponseAPIError; no other exception escapes.
C15_OnlyResponseAPIErrorEscapes ==
    (rg_pc = "done" /\ IsObjectReply(rg_payload)) =>
        \/ rg_result.ok
        \/ rg_result.error \in ResponseAPIErrorReasons

\* the elements of `output` that are assistant messages with an output_text
\* item whose trimmed text is not empty
QualifyingElements(output) == {k \in DOMAIN output : Qualifies(output[k])}

FirstQualifying(output) ==
    CHOOSE k \in QualifyingElements(output) :
        \A j \in QualifyingElements(output) : k <= j

\* C16: on success get_responses returns exactly one record; its text is the
\* trimmed, non-empty text of an output_text item of the first element of
\* `output` that is an assistant message with a non-empty output_text item,
\* and its usage is the reply's usage, or the empty mapping without one.
C16_TextOfFirstQualifyingMessage ==
    (rg_pc = "done" /\ rg_result.ok) =>
        /\ Len(rg_result.records) = 1
        /\ rg_result.records[1].text # <<>>
        /\ QualifyingElements(rg_payload.output) # {}
        /\ LET item == rg_payload.output[FirstQualifying(rg_payload.output)] IN
           \E k \in DOMAIN item.content :
               /\ item.content[k].type = "output_text"
               /\ Strip(item.content[k].text) = rg_result.records[1].text
        /\ rg_result.records[1].usage =
               (IF rg_payload.has_usage THEN rg_payload.usage ELSE {})

====
